---- MODULE Spec2Model ----
(***************************************************************************)
(* A model of slackapi/sample-app-unfurls: the link_shared unfurl pipeline *)
(* (basic.js and the two interactive revisions of the application), the    *)
(* Flickr helper module with findBestImage, and the interactive-message    *)
(* handler of the two interactive revisions.                               *)
(*                                                                         *)
(* The repository holds three revisions of the application:                *)
(*   "basic"  - src/basic.js: unfurls only, two Flickr fetches per link    *)
(*   "fetch"  - src/unnamed/part_000 with src/unnamed/part_002:1-106 and   *)
(*              src/lib/common.js: buttons whose handler fetches the       *)
(*              albums or groups from Flickr                               *)
(*   "inline" - src/unnamed/part_001 with src/unnamed/part_002:108-172:    *)
(*              buttons whose value carries the albums or groups inline    *)
(* The variable `variant` says which revision is running.                  *)
(*                                                                         *)
(* JavaScript values: an object is a function from its keys (strings) to   *)
(* its values, an absent key is `undefined`; an array is a sequence; text  *)
(* is a string; a text that the code takes apart (callback_id, JSON) is a  *)
(* sequence of tokens.                                                     *)
(***************************************************************************)
EXTENDS Integers, Sequences, FiniteSets, TLC

VARIABLES
  variant,     \* which revision of the application is running
  \* ---- link_shared pipeline
  event,       \* the link_shared event being handled, or NoEvent
  fetches,     \* fetches[i][k]: the Flickr call k of link i
  linkP,       \* linkP[i]: the promise messageAttachmentFromLink(links[i])
  allP,        \* the promise chain of the link_shared listener
  publishes,   \* the chat.unfurl calls issued for the event, in order
  calls,       \* the number of Flickr calls issued for the event
  \* ---- interactive-message handler
  message,     \* the attachment the Slack message shows (what a press sends back)
  req,         \* the request being handled, or NoReq
  reqState,    \* "none", "awaiting_action", "responded"
  outbound,    \* the Flickr calls of the handler that have not settled
  responses,   \* the HTTP responses sent for the request, in order
  steps,       \* the steps of the handler the request went through, in order
  history,     \* one record per request that was handled to the end
  \* ---- shared
  log,         \* what was written to the console
  \* ---- the attachment builder on its own
  input,       \* a link and a photo record, or NoInput
  output,      \* the result of messageAttachmentFromLink on input, or NoOutput
  \* ---- several requests at once
  suspended    \* the requests that wait while another one runs, each with what
               \* its callbacks close over

vars == <<variant, event, fetches, linkP, allP, publishes, calls,
          message, req, reqState, outbound, responses, steps, history,
          log, input, output, suspended>>

unfurlVars == <<event, fetches, linkP, allP, publishes, calls>>
handlerVars == <<message, req, reqState, outbound, responses, steps, history>>
builderVars == <<input, output>>

(***************************************************************************)
(* JavaScript objects                                                      *)
(***************************************************************************)
Empty == [k \in {} |-> TRUE]

Has(obj, key) == key \in DOMAIN obj

\* lodash.pick: the object with only the listed keys that are present
Pick(obj, keys) == [k \in (DOMAIN obj) \cap keys |-> obj[k]]

\* an optional value is <<>> (absent) or <<v>>; the property it gives an object
Opt(key, o) == IF Len(o) = 0 THEN Empty ELSE key :> o[1]

\* a string-valued property in a condition: undefined and '' are falsy
TruthyStr(obj, key) == Has(obj, key) /\ obj[key] # ""

\* a number-valued property in a condition: undefined and 0 are falsy
TruthyNum(obj, key) == Has(obj, key) /\ obj[key] # 0

\* Array.prototype.join on an array of strings
RECURSIVE Join(_, _)
Join(arr, sep) ==
  IF Len(arr) = 0 THEN ""
  ELSE IF Len(arr) = 1 THEN arr[1]
  ELSE arr[1] \o sep \o Join(Tail(arr), sep)

\* fields.filter(f => f.title !== title)
FilterTitleNot(fields, title) ==
  LET kept[i \in 0..Len(fields)] ==
        IF i = 0 THEN <<>>
        ELSE IF fields[i].title # title THEN Append(kept[i - 1], fields[i])
        ELSE kept[i - 1]
  IN  kept[Len(fields)]

\* the result of code that may throw
Ok(v) == [ok |-> TRUE, value |-> v]
Threw(e) == [ok |-> FALSE, error |-> e]

(***************************************************************************)
(* Date.prototype.toUTCString, for the timestamps (milliseconds) of        *)
(* January 1970, which is where the model's timestamps lie                 *)
(***************************************************************************)
Digits == <<"0", "1", "2", "3", "4", "5", "6", "7", "8", "9">>
TwoDigits(n) == Digits[(n \div 10) + 1] \o Digits[(n % 10) + 1]
DayNames == <<"Thu", "Fri", "Sat", "Sun", "Mon", "Tue", "Wed">>

toUTCString(ts) ==
  LET secs == ts \div 1000
      days == secs \div (24 * 60 * 60)
      rest == secs % (24 * 60 * 60)
  IN  DayNames[(days % 7) + 1] \o ", " \o TwoDigits(days + 1) \o " Jan 1970 "
        \o TwoDigits(rest \div 3600) \o ":" \o TwoDigits((rest % 3600) \div 60)
        \o ":" \o TwoDigits(rest % 60) \o " GMT"

(***************************************************************************)
(* JSON text as a sequence of tokens                                       *)
(***************************************************************************)
Punct(c) == [kind |-> "punct", text |-> c]
Str(s) == [kind |-> "string", text |-> s]

RECURSIVE StringifyMembers(_, _)
StringifyMembers(obj, keys) ==
  IF Len(keys) = 0 THEN <<>>
  ELSE <<Str(keys[1]), Punct(":"), Str(obj[keys[1]])>>
         \o (IF Len(keys) = 1 THEN <<>> ELSE <<Punct(",")>>)
         \o StringifyMembers(obj, Tail(keys))

RECURSIVE StringifyElements(_, _)
StringifyElements(arr, keys) ==
  IF Len(arr) = 0 THEN <<>>
  ELSE <<Punct("{")>> \o StringifyMembers(arr[1], keys) \o <<Punct("}")>>
         \o (IF Len(arr) = 1 THEN <<>> ELSE <<Punct(",")>>)
         \o StringifyElements(Tail(arr), keys)

\* JSON.stringify of an array of objects whose keys, in order, are `keys`
JSONstringify(arr, keys) ==
  <<Punct("[")>> \o StringifyElements(arr, keys) \o <<Punct("]")>>

IsAt(t, i, tok) == i <= Len(t) /\ t[i] = tok
IsStrAt(t, i) == i <= Len(t) /\ t[i].kind = "string"

\* the members of an object from token i on: [ok, obj, next]
RECURSIVE ParseMembers(_, _, _)
ParseMembers(t, i, acc) ==
  IF IsStrAt(t, i) /\ IsAt(t, i + 1, Punct(":")) /\ IsStrAt(t, i + 2)
  THEN LET obj == (t[i].text :> t[i + 2].text) @@ acc
       IN  IF IsAt(t, i + 3, Punct(","))
           THEN ParseMembers(t, i + 4, obj)
           ELSE IF IsAt(t, i + 3, Punct("}"))
                THEN [ok |-> TRUE, obj |-> obj, next |-> i + 4]
                ELSE [ok |-> FALSE, obj |-> Empty, next |-> i]
  ELSE [ok |-> FALSE, obj |-> Empty, next |-> i]

ParseObject(t, i) ==
  IF ~IsAt(t, i, Punct("{")) THEN [ok |-> FALSE, obj |-> Empty, next |-> i]
  ELSE IF IsAt(t, i + 1, Punct("}")) THEN [ok |-> TRUE, obj |-> Empty, next |-> i + 2]
  ELSE ParseMembers(t, i + 1, Empty)

RECURSIVE ParseElements(_, _, _)
ParseElements(t, i, acc) ==
  LET o == ParseObject(t, i)
  IN  IF ~o.ok THEN Threw("SyntaxError")
      ELSE IF IsAt(t, o.next, Punct(","))
           THEN ParseElements(t, o.next + 1, Append(acc, o.obj))
           ELSE IF IsAt(t, o.next, Punct("]")) /\ o.next = Len(t)
                THEN Ok(Append(acc, o.obj))
                ELSE Threw("SyntaxError")

\* JSON.parse of a text that should hold an array of objects
JSONparse(t) ==
  IF ~IsAt(t, 1, Punct("[")) THEN Threw("SyntaxError")
  ELSE IF IsAt(t, 2, Punct("]"))
       THEN (IF Len(t) = 2 THEN Ok(<<>>) ELSE Threw("SyntaxError"))
       ELSE ParseElements(t, 2, <<>>)

(***************************************************************************)
(* lib/common                                                              *)
(***************************************************************************)
maxWidth == 400

maxHeight == 500

AttachmentWhitelist ==
  {"fallback", "color", "title", "title_link", "image_url", "url", "author_name",
   "author_icon", "author_link", "fields", "actions", "callback_id"}

ActionWhitelist == {"text", "name", "type", "value"}

CleanAction(c) == Pick(c, ActionWhitelist)

cloneAndCleanAttachment(attachment) ==
  LET clone == Pick(attachment, AttachmentWhitelist)
  IN  IF Has(clone, "actions")
      THEN [clone EXCEPT !["actions"] = [i \in DOMAIN clone.actions |-> CleanAction(clone.actions[i])]]
      ELSE clone

(***************************************************************************)
(* lib/flickr: findBestImage                                               *)
(***************************************************************************)
\* idealAspectRatio > anyPhoto.width / anyPhoto.height, in exact arithmetic:
\* maxWidth / maxHeight > w / h  iff  maxWidth * h > maxHeight * w  (h >= 0; with
\* h = 0 the quotient is Infinity or NaN and the comparison is false)
prioritizedDimension(anyPhoto) ==
  IF maxWidth * anyPhoto.height > maxHeight * anyPhoto.width THEN "width" ELSE "height"

comparedDimensionValue(dim) == IF dim = "height" THEN maxHeight ELSE maxWidth

\* lodash.sortBy: a stable insertion of each element after the ones not larger
RECURSIVE InsertSorted(_, _, _)
InsertSorted(sorted, x, dim) ==
  IF Len(sorted) = 0 THEN <<x>>
  ELSE IF sorted[Len(sorted)][dim] <= x[dim] THEN Append(sorted, x)
  ELSE Append(InsertSorted(SubSeq(sorted, 1, Len(sorted) - 1), x, dim),
              sorted[Len(sorted)])

RECURSIVE SortByFrom(_, _, _)
SortByFrom(arr, dim, acc) ==
  IF Len(arr) = 0 THEN acc
  ELSE SortByFrom(Tail(arr), dim, InsertSorted(acc, arr[1], dim))

sortBy(arr, dim) == SortByFrom(arr, dim, <<>>)

\* a lodash.find that takes the first variant that reaches the bound
findAtLeast(arr, dim, bound) ==
  LET hits == {i \in 1..Len(arr) : arr[i][dim] >= bound}
  IN  IF hits = {} THEN <<>>
      ELSE <<arr[CHOOSE i \in hits : \A j \in hits : i <= j]>>

\* lodash.find(arr, p => p[dim] > bound): <<>> is undefined, <<x>> the first hit
find(arr, dim, bound) ==
  LET hits == {i \in 1..Len(arr) : arr[i][dim] > bound}
  IN  IF hits = {} THEN <<>>
      ELSE <<arr[CHOOSE i \in hits : \A j \in hits : i <= j]>>

\* a findBestImage that prefers the sampled variant when it is above the bound
findBestImageNearSample(photoUrls, anyPhoto) ==
  LET dim == prioritizedDimension(anyPhoto)
  IN  IF anyPhoto[dim] > comparedDimensionValue(dim) THEN <<anyPhoto>>
      ELSE find(sortBy(photoUrls, dim), dim, comparedDimensionValue(dim))

\* a findBestImage that falls back to the largest variant when none is above the bound
findBestImageOrLargest(photoUrls, anyPhoto) ==
  LET dim == prioritizedDimension(anyPhoto)
      sortedPhotos == sortBy(photoUrls, dim)
      found == find(sortedPhotos, dim, comparedDimensionValue(dim))
  IN  IF Len(found) = 0 THEN <<sortedPhotos[Len(sortedPhotos)]>> ELSE found

\* findBestImage with the element that lodash.sample drew given as anyPhoto
findBestImage(photoUrls, anyPhoto) ==
  LET dim == prioritizedDimension(anyPhoto)
      bound == comparedDimensionValue(dim)
      sortedPhotos == sortBy(photoUrls, dim)
  IN  find(sortedPhotos, dim, bound)

(***************************************************************************)
(* The revisions of the application                                        *)
(***************************************************************************)
Variants == {"basic", "fetch", "inline"}
InteractiveVariants == {"fetch", "inline"}

\* the Flickr calls getFlickrUrlData makes for one link
FetchKinds(v) ==
  IF v = "inline" THEN {"photoInfo", "photoUrls", "photoContexts"}
  ELSE {"photoInfo", "photoUrls"}

(***************************************************************************)
(* What Flickr can answer                                                  *)
(***************************************************************************)
\* the keys of an album (photos.getAllContexts set) and of a group (pool), in order
SetKeys == <<"id", "title">>
PoolKeys == <<"id", "title", "url">>

Album1 == [id |-> "721", title |-> "Holidays"]
Album2 == [id |-> "722", title |-> "Best of"]
Group1 == [id |-> "g1", title |-> "Sunsets", url |-> "/groups/sunsets/"]
Group2 == [id |-> "g2", title |-> "Sky", url |-> "/groups/sky/"]

\* the record flickr-photo-info gives for a photo
PhotoInfo(id, description, tags, takenTS, postTS, name, username) ==
  [id |-> id, title |-> "Sunset", url |-> "https://www.flickr.com/photos/ann/" \o id \o "/",
   tags |-> tags,
   owner |-> [username |-> username, icons |-> [small |-> "https://flickr.com/icons/ann.jpg"],
              url |-> "https://www.flickr.com/people/ann/"] @@ Opt("name", name)]
    @@ Opt("description", description) @@ Opt("takenTS", takenTS) @@ Opt("postTS", postTS)

(***************************************************************************)
(* lib/flickr: getFlickrUrlData                                            *)
(***************************************************************************)
\* A URL is kept as its pieces between slashes: "https://host/a/b/" is
\* <<"https:", "", "host", "a", "b", "">>. whatwg-url parseURL(inputUrl).path is the
\* pieces after the host.
UrlPath(url) == SubSeq(url, 4, Len(url))

\* const photoId = url.path[2]
PhotoIdOf(url) == UrlPath(url)[3]

\* lodash.sample: what it can draw, <<>> (undefined) from an empty collection
Samples(photoUrls) ==
  IF Len(photoUrls) = 0 THEN {<<>>} ELSE {<<photoUrls[i]>> : i \in 1..Len(photoUrls)}

\* the .then callback of getFlickrUrlData on the results of its fetches; results is
\* a function from the fetch kinds to the values the fetches resolved with
getFlickrUrlData(v, results, anyPhoto) ==
  IF Len(anyPhoto) = 0 THEN Threw("TypeError")
  ELSE LET image == findBestImage(results["photoUrls"], anyPhoto[1])
       IN  IF Len(image) = 0 THEN Threw("TypeError")
           ELSE Ok(("imageUrl" :> image[1].source)
                     @@ (IF v = "inline"
                         THEN (IF Has(results["photoContexts"], "set")
                               THEN "sets" :> results["photoContexts"]["set"] ELSE Empty)
                                @@ (IF Has(results["photoContexts"], "pool")
                                    THEN "pools" :> results["photoContexts"]["pool"] ELSE Empty)
                         ELSE Empty)
                     @@ results["photoInfo"])

(***************************************************************************)
(* messageAttachmentFromLink                                               *)
(***************************************************************************)
\* The basic attachment
BasicAttachment(link, photo) ==
  [fallback |-> photo.title \o (IF TruthyStr(photo, "description")
                                THEN ": " \o photo.description ELSE ""),
   color |-> "#ff0084",
   title |-> photo.title,
   title_link |-> photo.url,
   image_url |-> photo.imageUrl,
   url |-> link.url]

\* const authorName = photo.owner.name || photo.owner.username
AuthorName(photo) ==
  IF TruthyStr(photo.owner, "name") THEN photo.owner.name ELSE photo.owner.username

AuthorProperties(photo) ==
  IF AuthorName(photo) # ""
  THEN [author_name |-> AuthorName(photo), author_icon |-> photo.owner.icons.small,
        author_link |-> photo.owner.url]
  ELSE Empty

TagRaw(t) == t.raw

\* Conditionally add fields as long as the data is available
PhotoFields(photo) ==
  (IF TruthyStr(photo, "description")
   THEN <<[title |-> "Description", value |-> photo.description]>> ELSE <<>>)
  \o (IF Len(photo.tags) > 0
      THEN <<[title |-> "Tags", value |-> Join([i \in DOMAIN photo.tags |-> TagRaw(photo.tags[i])], ", ")]>> ELSE <<>>)
  \o (IF TruthyNum(photo, "takenTS")
      THEN <<[title |-> "Taken", value |-> toUTCString(photo.takenTS)]>> ELSE <<>>)
  \o (IF TruthyNum(photo, "postTS")
      THEN <<[title |-> "Posted", value |-> toUTCString(photo.postTS)]>> ELSE <<>>)

FieldsProperty(photo) ==
  IF Len(PhotoFields(photo)) > 0 THEN "fields" :> PhotoFields(photo) ELSE Empty

Button(text, name, value) == [text |-> text, name |-> name, type |-> "button", value |-> value]

\* "fetch": both buttons always, their value the photo id
FetchInteractivity(photo) ==
  [callback_id |-> <<"photo_details">>,
   actions |-> <<Button("Albums", "list_photosets", photo.id),
                 Button("Groups", "list_pools", photo.id)>>]

\* "inline": a button per non-empty collection, its value the collection as JSON
InlineActions(photo) ==
  (IF Len(photo.sets) > 0
   THEN <<Button("Albums", "list_photosets", JSONstringify(photo.sets, SetKeys))>> ELSE <<>>)
  \o (IF Len(photo.pools) > 0
      THEN <<Button("Groups", "list_pools", JSONstringify(photo.pools, PoolKeys))>> ELSE <<>>)

\* an identifier that joins the family and the photo id with a dash
InlineInteractivityDashed(photo) ==
  IF Len(InlineActions(photo)) # 0
  THEN [callback_id |-> <<"photo_details", "-", photo.id>>, actions |-> InlineActions(photo)]
  ELSE Empty

InlineInteractivity(photo) ==
  IF Len(InlineActions(photo)) # 0
  THEN [callback_id |-> <<"photo_details", ":", photo.id>>, actions |-> InlineActions(photo)]
  ELSE Empty

\* the .then callback of messageAttachmentFromLink: the attachment, or the error
\* thrown (photo.sets.length or photo.pools.length of undefined)
messageAttachmentFromLink(v, link, photo) ==
  LET plain == FieldsProperty(photo) @@ AuthorProperties(photo) @@ BasicAttachment(link, photo)
  IN  IF v = "basic" THEN Ok(plain)
      ELSE IF v = "fetch" THEN Ok(FetchInteractivity(photo) @@ plain)
      ELSE IF ~Has(photo, "sets") \/ ~Has(photo, "pools") THEN Threw("TypeError")
      ELSE Ok(InlineInteractivity(photo) @@ plain)

(***************************************************************************)
(* The values of the variables while a part of the application is idle     *)
(***************************************************************************)
NoEvent == [type |-> "none"]
NoReq == [kind |-> "none"]
NoMessage == [posted |-> FALSE]
NoInput == [given |-> FALSE]
NoOutput == [built |-> FALSE]

UnfurlIdle ==
  /\ event = NoEvent
  /\ fetches = <<>>
  /\ linkP = <<>>
  /\ allP = "none"
  /\ publishes = <<>>
  /\ calls = 0

HandlerIdle ==
  /\ message = NoMessage
  /\ req = NoReq
  /\ reqState = "none"
  /\ outbound = <<>>
  /\ responses = <<>>
  /\ steps = <<>>
  /\ history = <<>>

BuilderIdle ==
  /\ input = NoInput
  /\ output = NoOutput

NoneSuspended == suspended = <<>>

(***************************************************************************)
(* The attachment builder on its own: messageAttachmentFromLink applied to *)
(* every photo record of a bounded set                                     *)
(***************************************************************************)
PhotoUrl1 == <<"https:", "", "www.flickr.com", "photos", "ann", "123456", "">>
PhotoUrl2 == <<"https:", "", "www.flickr.com", "photos", "ann", "98765", "">>
PhotoUrl3 == <<"https:", "", "www.flickr.com", "photos", "ann", "4242", "">>

Descriptions == {<<>>, <<"">>, <<"Golden hour">>}
TagLists == {<<>>, <<[raw |-> "sun set"]>>, <<[raw |-> "sun set"], [raw |-> "sea"]>>}
Timestamps == {<<>>, <<0>>, <<24 * 60 * 60 * 1000>>, <<(2 * 24 * 60 * 60 + 3723) * 1000>>}
OwnerNames == {<<>>, <<"Ann Lee">>}
OwnerUsernames == {"", "ann99"}
AlbumLists == {<<>>, <<Album1>>, <<Album1, Album2>>}
GroupLists == {<<>>, <<Group1>>, <<Group1, Group2>>}

PhotoInfos(id) ==
  {PhotoInfo(id, d, t, tk, ps, n, u) :
     d \in Descriptions, t \in TagLists, tk \in Timestamps, ps \in Timestamps,
     n \in OwnerNames, u \in OwnerUsernames}

\* photos.getAllContexts: `set` and `pool` may be absent, and may be empty
PhotoContexts ==
  {Opt("set", s) @@ Opt("pool", g) :
     s \in {<<>>} \cup {<<a>> : a \in AlbumLists},
     g \in {<<>>} \cup {<<a>> : a \in GroupLists}}

\* the photo records getFlickrUrlData can resolve with
PhotoRecords(v, id) ==
  {("imageUrl" :> "https://farm1.staticflickr.com/" \o id \o "_b.jpg")
     @@ (IF v = "inline"
         THEN (IF Has(c, "set") THEN "sets" :> c["set"] ELSE Empty)
                @@ (IF Has(c, "pool") THEN "pools" :> c["pool"] ELSE Empty)
         ELSE Empty)
     @@ i : i \in PhotoInfos(id), c \in PhotoContexts}

InitAttachment ==
  /\ variant \in Variants
  /\ input \in {[given |-> TRUE, link |-> [url |-> PhotoUrl1], photo |-> p] :
                  p \in PhotoRecords(variant, PhotoIdOf(PhotoUrl1))}
  /\ output = NoOutput
  /\ log = <<>>
  /\ UnfurlIdle
  /\ HandlerIdle
  /\ NoneSuspended

BuildAttachment ==
  /\ input.given
  /\ ~output.built
  /\ output' = [built |-> TRUE,
                result |-> messageAttachmentFromLink(variant, input.link, input.photo)]
  /\ UNCHANGED <<variant, input, log, unfurlVars, handlerVars, suspended>>

NextAttachment == BuildAttachment

SpecAttachment == InitAttachment /\ [][NextAttachment]_vars

\* the titles of the fields of an attachment; none when it has no fields key
FieldTitles(a) == IF Has(a, "fields") THEN [i \in 1..Len(a.fields) |-> a.fields[i].title] ELSE <<>>

\* (Description, Tags, Taken, Posted) restricted to the attributes of the photo that
\* are present and non-empty
PresentFieldTitles(photo) ==
  (IF Has(photo, "description") /\ photo.description # "" THEN <<"Description">> ELSE <<>>)
  \o (IF Len(photo.tags) > 0 THEN <<"Tags">> ELSE <<>>)
  \o (IF Has(photo, "takenTS") THEN <<"Taken">> ELSE <<>>)
  \o (IF Has(photo, "postTS") THEN <<"Posted">> ELSE <<>>)

\* C10: the fields of the attachment built for a photo are exactly the subsequence of
\* (Description, Tags, Taken, Posted) whose source attribute is present and non-empty,
\* and an attachment with no such field has no `fields` key
C10_FieldsArePresentAttributes ==
  (output.built /\ output.result.ok) =>
    /\ FieldTitles(output.result.value) = PresentFieldTitles(input.photo)
    /\ Has(output.result.value, "fields") => Len(output.result.value.fields) > 0

\* the albums and the groups of a photo record; none when the record carries none
AlbumsOf(photo) == IF Has(photo, "sets") THEN photo.sets ELSE <<>>
GroupsOf(photo) == IF Has(photo, "pools") THEN photo.pools ELSE <<>>

\* C11: for every photo record an attachment is built whose `actions` and `callback_id`
\* are both present or both absent, and both are absent when the photo has neither
\* albums nor groups (an answer of the photo service without them included)
C11_ActionsWithCallbackId ==
  output.built =>
    /\ output.result.ok
    /\ Has(output.result.value, "actions") <=> Has(output.result.value, "callback_id")
    /\ (Len(AlbumsOf(input.photo)) = 0 /\ Len(GroupsOf(input.photo)) = 0)
         => (~Has(output.result.value, "actions") /\ ~Has(output.result.value, "callback_id"))

(***************************************************************************)
(* findBestImage on its own: called repeatedly on one collection of image  *)
(* variants, lodash.sample drawing the variant it looks at on every call   *)
(***************************************************************************)
MaxImages == 3
MaxCalls == 3

\* the variants flickr-photo-urls can list: narrower and wider than the ideal
\* ratio and exactly on it, below, on and above the bounds
ImageVariants ==
  {[source |-> "t.jpg", width |-> 300, height |-> 500],
   [source |-> "n.jpg", width |-> 400, height |-> 800],
   [source |-> "z.jpg", width |-> 640, height |-> 480],
   [source |-> "q.jpg", width |-> 500, height |-> 500],
   [source |-> "c.jpg", width |-> 640, height |-> 800],
   [source |-> "b.jpg", width |-> 1024, height |-> 768]}

ImageLists == UNION {[1..n -> ImageVariants] : n \in 1..MaxImages}

InitImage ==
  /\ variant = "inline"
  /\ input \in {[given |-> TRUE, photoUrls |-> ps] : ps \in ImageLists}
  /\ output = <<>>
  /\ log = <<>>
  /\ UnfurlIdle
  /\ HandlerIdle
  /\ NoneSuspended

\* one call findBestImage(photoUrls)
CallFindBestImage ==
  /\ input.given
  /\ Len(output) < MaxCalls
  /\ \E anyPhoto \in Samples(input.photoUrls) :
       output' = Append(output, [anyPhoto |-> anyPhoto[1],
                                 image |-> findBestImage(input.photoUrls, anyPhoto[1])])
  /\ UNCHANGED <<variant, input, log, unfurlVars, handlerVars, suspended>>

NextImage == CallFindBestImage

SpecImage == InitImage /\ [][NextImage]_vars

\* the dimension that binds for the sampled variant s: width if 400/500 > s.width/s.height
ReferenceDimension(s) == IF 400 * s.height > 500 * s.width THEN "width" ELSE "height"

ReferenceBound(dim) == IF dim = "width" THEN 400 ELSE 500

\* the variants of ps whose value on dim strictly exceeds the bound, by position
Exceeding(ps, dim) == {i \in 1..Len(ps) : ps[i][dim] > ReferenceBound(dim)}

\* the reference: the smallest exceeding variant on the binding dimension, the earliest
\* of the list among equals; <<>> when none exceeds
ReferenceImage(ps, s) ==
  LET dim == ReferenceDimension(s)
      above == Exceeding(ps, dim)
  IN  IF above = {} THEN <<>>
      ELSE <<ps[CHOOSE i \in above :
                 \A j \in above : \/ ps[i][dim] < ps[j][dim]
                                  \/ (ps[i][dim] = ps[j][dim] /\ i <= j)]>>

\* C12: for every non-empty collection of variants and every sampled variant,
\* findBestImage returns what the reference returns: the variant with the smallest
\* value on the binding dimension among those strictly above the bound (400 for width,
\* 500 for height), width binding exactly when 400/500 > s.width/s.height
C12_FindBestImageIsReference ==
  \A c \in 1..Len(output) :
    output[c].image = ReferenceImage(input.photoUrls, output[c].anyPhoto)

\* a width-binding call and a height-binding call, both returning a variant, on a
\* collection that holds a variant exactly on the width bound and two variants above
\* it
C12_Witness ==
  /\ input.given
  /\ \E i \in 1..Len(input.photoUrls) : input.photoUrls[i].width = 400
  /\ \E c, d \in 1..Len(output) :
        /\ ReferenceDimension(output[c].anyPhoto) = "width"
        /\ ReferenceDimension(output[d].anyPhoto) = "height"
        /\ Len(output[c].image) = 1
        /\ Len(output[d].image) = 1
        /\ Cardinality(Exceeding(input.photoUrls, "width")) >= 2

\* C13: with the collection of variants fixed, every call of findBestImage whose
\* sampled variant is the same returns the same variant, and so does every call whose
\* sampled variant gives the same binding dimension, width or height
C13_FindBestImageDeterministic ==
  \A c, d \in 1..Len(output) :
    /\ output[c].anyPhoto = output[d].anyPhoto => output[c].image = output[d].image
    /\ prioritizedDimension(output[c].anyPhoto) = prioritizedDimension(output[d].anyPhoto)
         => output[c].image = output[d].image

\* two calls that sampled the same variant and a third that sampled another variant of
\* the same binding dimension, on a collection where the other dimension would give
\* another variant
C13_Witness ==
  /\ input.given
  /\ \E c, d, e \in 1..Len(output) :
        /\ c < d
        /\ output[c].anyPhoto = output[d].anyPhoto
        /\ output[e].anyPhoto # output[c].anyPhoto
        /\ prioritizedDimension(output[e].anyPhoto) = prioritizedDimension(output[c].anyPhoto)
        /\ Len(output[c].image) = 1
  /\ \E s, t \in ImageVariants :
        findBestImage(input.photoUrls, s) # findBestImage(input.photoUrls, t)

(***************************************************************************)
(* Promises                                                                *)
(***************************************************************************)
Pending == [state |-> "pending"]
Resolved(v) == [state |-> "resolved", value |-> v]
Rejected(e) == [state |-> "rejected", error |-> e]

\* Promise.all over the promises ps (a function): rejected as soon as one is
\* rejected, resolved once all are resolved
PromiseAll(ps) ==
  IF \E x \in DOMAIN ps : ps[x].state = "rejected" THEN "rejected"
  ELSE IF \A x \in DOMAIN ps : ps[x].state = "resolved" THEN "resolved"
  ELSE "pending"

\* the values Promise.all resolves with
PromiseAllValues(ps) == [x \in DOMAIN ps |-> ps[x].value]

(***************************************************************************)
(* lodash keyBy, omit, mapValues                                           *)
(***************************************************************************)
\* keyBy(arr, key): a later element replaces an earlier one with the same key
keyBy(arr, key) ==
  [u \in {arr[i][key] : i \in 1..Len(arr)} |->
     arr[CHOOSE i \in 1..Len(arr) :
           /\ arr[i][key] = u
           /\ \A j \in 1..Len(arr) : arr[j][key] = u => j <= i]]

omit(obj, key) == [k \in (DOMAIN obj) \ {key} |-> obj[k]]

\* a listener that forgets to strip the url
OmitUrlForgotten(attachment) == attachment

OmitUrl(attachment) == omit(attachment, "url")

mapValuesOmitUrl(obj) == [k \in DOMAIN obj |-> OmitUrl(obj[k])]

\* attachments => mapValues(keyBy(attachments, 'url'), a => omit(a, 'url'))
UnfurlsOf(attachments) == mapValuesOmitUrl(keyBy(attachments, "url"))

(***************************************************************************)
(* The link_shared pipeline                                                *)
(***************************************************************************)
MaxLinks == 2

PhotoUrls == {PhotoUrl1, PhotoUrl2}

LinkLists == UNION {[1..n -> {[url |-> u] : u \in PhotoUrls}] : n \in 1..MaxLinks}

\* What Flickr holds. Photo 123456 has every attribute, images of which one is found
\* whatever sample draws, two albums and a group. Photo 98765 has no optional
\* attribute, images of which one is found or none depending on what sample draws,
\* and neither `set` nor `pool` in its contexts. Photo 4242 has no optional
\* attribute, one large image, an album and an empty `pool`.
FlickrAnswer(kind, id) ==
  IF id = "123456"
  THEN CASE kind = "photoInfo" ->
              PhotoInfo(id, <<"Golden hour">>, <<[raw |-> "sun set"], [raw |-> "sea"]>>,
                        <<24 * 60 * 60 * 1000>>, <<(2 * 24 * 60 * 60 + 3723) * 1000>>,
                        <<"Ann Lee">>, "ann99")
         [] kind = "photoUrls" ->
              <<[source |-> "https://farm1.staticflickr.com/123456_c.jpg", width |-> 800, height |-> 600],
                [source |-> "https://farm1.staticflickr.com/123456_m.jpg", width |-> 300, height |-> 200],
                [source |-> "https://farm1.staticflickr.com/123456_b.jpg", width |-> 500, height |-> 900]>>
         [] kind = "photoContexts" -> [set |-> <<Album1, Album2>>, pool |-> <<Group1>>]
  ELSE IF id = "98765"
  THEN CASE kind = "photoInfo" -> PhotoInfo(id, <<>>, <<>>, <<>>, <<>>, <<>>, "")
         [] kind = "photoUrls" ->
              <<[source |-> "https://farm1.staticflickr.com/98765_z.jpg", width |-> 450, height |-> 480],
                [source |-> "https://farm1.staticflickr.com/98765_n.jpg", width |-> 300, height |-> 400]>>
         [] kind = "photoContexts" -> Empty
  ELSE CASE kind = "photoInfo" -> PhotoInfo(id, <<>>, <<>>, <<>>, <<>>, <<>>, "ann99")
         [] kind = "photoUrls" ->
              <<[source |-> "https://farm1.staticflickr.com/4242_b.jpg", width |-> 1024, height |-> 768]>>
         [] kind = "photoContexts" -> [set |-> <<Album1>>, pool |-> <<>>]

\* photosets.getInfo
FlickrSetInfo(id) ==
  [photoset |->
     [id |-> id, owner |-> "ann",
      title |-> IF id = "721" THEN ("_content" :> "Holidays") ELSE ("_content" :> "Best of"),
      description |-> ("_content" :> "")]]

InFlight ==
  \/ allP = "publishing"
  \/ \E i \in DOMAIN fetches : \E k \in DOMAIN fetches[i] : fetches[i][k].state = "pending"

\* slackEvents.on('link_shared'): every link starts its fetches
LinkShared(links, ts) ==
  /\ variant \in Variants
  /\ ~InFlight
  /\ event' = [type |-> "link_shared", links |-> links, channel |-> "C2147483705",
               message_ts |-> ts]
  /\ fetches' = [i \in 1..Len(links) |-> [k \in FetchKinds(variant) |-> Pending]]
  /\ linkP' = [i \in 1..Len(links) |-> Pending]
  /\ allP' = "pending"
  /\ publishes' = <<>>
  /\ calls' = Len(links) * Cardinality(FetchKinds(variant))
  /\ log' = <<>>
  /\ UNCHANGED <<variant, handlerVars, builderVars, suspended>>

\* messageAttachmentFromLink(link) once the fetches of the link have all resolved:
\* the promise of the link after getFlickrUrlData's and its own .then callback
LinkChain(link, results, anyPhoto) ==
  LET photo == getFlickrUrlData(variant, results, anyPhoto)
  IN  IF ~photo.ok THEN Rejected(photo.error)
      ELSE LET attachment == messageAttachmentFromLink(variant, link, photo.value)
           IN  IF attachment.ok THEN Resolved(attachment.value)
               ELSE Rejected(attachment.error)

\* the promise of link i after its fetch k settled as `settled`; a chain that ran
\* keeps what lodash.sample drew in it
LinkAfter(i, k, settled, anyPhoto) ==
  LET mine == [fetches[i] EXCEPT ![k] = settled]
  IN  IF linkP[i].state # "pending" THEN linkP[i]
      ELSE IF PromiseAll(mine) = "rejected" THEN Rejected(settled.error)
      ELSE IF PromiseAll(mine) = "resolved"
           THEN [anyPhoto |-> anyPhoto] @@ LinkChain(event.links[i], PromiseAllValues(mine), anyPhoto)
      ELSE Pending

\* the resolved ones among the promises ps (a sequence), in order
RECURSIVE ResolvedValues(_)
ResolvedValues(ps) ==
  IF Len(ps) = 0 THEN <<>>
  ELSE (IF ps[1].state = "resolved" THEN <<ps[1].value>> ELSE <<>>)
         \o ResolvedValues(Tail(ps))

\* a listener that publishes what it has once every link has settled, leaving out
\* the links that failed
AttachmentsJoinSkippingFailures(links) ==
  IF \E i \in DOMAIN links : links[i].state = "pending"
  THEN [state |-> "pending", values |-> <<>>]
  ELSE [state |-> "resolved", values |-> ResolvedValues(links)]

\* a listener that publishes as soon as one link is built
AttachmentsJoinFirstBuilt(links) ==
  IF \E i \in DOMAIN links : links[i].state = "resolved"
  THEN [state |-> "resolved", values |-> ResolvedValues(links)]
  ELSE [state |-> PromiseAll(links), values |-> <<>>]

\* Promise.all(event.links.map(messageAttachmentFromLink)): its state, and the
\* attachments it resolves with
AttachmentsJoin(links) ==
  [state |-> PromiseAll(links),
   values |-> IF PromiseAll(links) = "resolved" THEN PromiseAllValues(links) ELSE <<>>]

\* A Flickr call of link i settles, and every callback that this makes runnable runs:
\* the link's chain, and, when the links are all built, the keying by URL and the
\* chat.unfurl call; a rejection of the chain goes to console.error.
SettleFetch(i, k, settled, anyPhoto) ==
  /\ event # NoEvent
  /\ i \in DOMAIN fetches
  /\ k \in DOMAIN fetches[i]
  /\ fetches[i][k].state = "pending"
  /\ fetches' = [fetches EXCEPT ![i][k] = settled]
  /\ LET links == [linkP EXCEPT ![i] = LinkAfter(i, k, settled, anyPhoto)]
     IN  /\ linkP' = links
         /\ IF allP # "pending" THEN UNCHANGED <<allP, publishes, log>>
            ELSE IF AttachmentsJoin(links).state = "rejected"
                 THEN /\ allP' = "rejected"
                      /\ log' = Append(log, links[i].error)
                      /\ UNCHANGED publishes
            ELSE IF AttachmentsJoin(links).state = "resolved"
                 THEN /\ allP' = "publishing"
                      /\ publishes' = Append(publishes,
                           [message_ts |-> event.message_ts, channel |-> event.channel,
                            unfurls |-> UnfurlsOf(AttachmentsJoin(links).values)])
                      /\ UNCHANGED log
            ELSE UNCHANGED <<allP, publishes, log>>
  /\ UNCHANGED <<variant, event, calls, handlerVars, builderVars, suspended>>

ResolveFetch ==
  \E i \in DOMAIN fetches : \E k \in DOMAIN fetches[i] :
    \E anyPhoto \in Samples(FlickrAnswer("photoUrls", PhotoIdOf(event.links[i].url))) :
      SettleFetch(i, k, Resolved(FlickrAnswer(k, PhotoIdOf(event.links[i].url))), anyPhoto)

RejectFetch ==
  \E i \in DOMAIN fetches : \E k \in DOMAIN fetches[i] :
    SettleFetch(i, k, Rejected("flickr: " \o k), <<>>)

\* slack.chat.unfurl resolves
PublishResolves ==
  /\ allP = "publishing"
  /\ allP' = "published"
  /\ UNCHANGED <<variant, event, fetches, linkP, publishes, calls, log,
                 handlerVars, builderVars, suspended>>

\* slack.chat.unfurl rejects: .catch(console.error)
PublishRejects ==
  /\ allP = "publishing"
  /\ allP' = "publish_failed"
  /\ log' = Append(log, "chat.unfurl")
  /\ UNCHANGED <<variant, event, fetches, linkP, publishes, calls, handlerVars, builderVars, suspended>>

InitUnfurl ==
  /\ variant \in Variants
  /\ UnfurlIdle
  /\ HandlerIdle
  /\ BuilderIdle
  /\ NoneSuspended
  /\ log = <<>>

NextUnfurl ==
  \/ \E links \in LinkLists : \E ts \in {"1500000000.000100"} : LinkShared(links, ts)
  \/ ResolveFetch
  \/ RejectFetch
  \/ PublishResolves
  \/ PublishRejects

SpecUnfurl == InitUnfurl /\ [][NextUnfurl]_vars

AllFetchesResolved(i) == \A k \in DOMAIN fetches[i] : fetches[i][k].state = "resolved"

NoFetchPending == \A i \in DOMAIN fetches : \A k \in DOMAIN fetches[i] : fetches[i][k].state # "pending"

\* C7: when the chain of one link of the event rejects, chat.unfurl is not called for
\* the event, the failure is written to the console once, and no Flickr call is made
\* again
C7_RejectedLinkAbandonsPublish ==
  (\E i \in DOMAIN linkP : linkP[i].state = "rejected") =>
    /\ publishes = <<>>
    /\ allP = "rejected"
    /\ Len(log) = 1
    /\ calls = Len(event.links) * Cardinality(FetchKinds(variant))

\* the chain of one link failed, another link was built, and every fetch has settled
C7_Witness ==
  /\ \E i \in DOMAIN linkP : linkP[i].state = "rejected"
  /\ \E j \in DOMAIN linkP : linkP[j].state = "resolved"
  /\ NoFetchPending

\* C8: at most one chat.unfurl call is issued for an event, only when every fetch of
\* every link has resolved, and a link's attachment is built only when the fetches of
\* that link have all resolved
C8_PublishAfterAllFetches ==
  /\ Len(publishes) <= 1
  /\ publishes # <<>> => \A i \in DOMAIN fetches : AllFetchesResolved(i)
  /\ \A i \in DOMAIN linkP : linkP[i].state = "resolved" => AllFetchesResolved(i)

\* a publish was issued for an event of two links
C8_Witness ==
  /\ Len(publishes) = 1
  /\ Len(event.links) = 2
  /\ \A i \in DOMAIN linkP : linkP[i].state = "resolved"

RECURSIVE SeqOfSet(_)
SeqOfSet(S) ==
  IF S = {} THEN <<>>
  ELSE LET x == CHOOSE y \in S : TRUE IN <<x>> \o SeqOfSet(S \ {x})

\* the values of a batch, each with its key attached again as `url`
Reattached(unfurls) ==
  LET keys == SeqOfSet(DOMAIN unfurls)
  IN  [i \in 1..Len(keys) |-> ("url" :> keys[i]) @@ unfurls[keys[i]]]

\* C9: the batch passed to chat.unfurl has exactly the distinct URLs of the event's
\* links as keys, each mapped to an attachment built for that URL without its url
\* property; no value has a url property; attaching the keys again as url and keying
\* by URL gives the batch back
C9_BatchKeyedByUrl ==
  \A n \in DOMAIN publishes :
    LET unfurls == publishes[n].unfurls
    IN  /\ DOMAIN unfurls = {event.links[i].url : i \in DOMAIN event.links}
        /\ \A u \in DOMAIN unfurls :
             /\ ~Has(unfurls[u], "url")
             /\ \E i \in DOMAIN linkP :
                  /\ event.links[i].url = u
                  /\ linkP[i].state = "resolved"
                  /\ unfurls[u] = omit(linkP[i].value, "url")
        /\ mapValuesOmitUrl(keyBy(Reattached(unfurls), "url")) = unfurls

\* a batch was published for two links with the same URL whose attachments differ
C9_Witness ==
  /\ Len(publishes) = 1
  /\ Len(event.links) = 2
  /\ event.links[1].url = event.links[2].url
  /\ linkP[1].value # linkP[2].value

\* the links whose chain ran: their fetches resolved and lodash.sample drew a variant
ChainRan(i) == Has(linkP[i], "anyPhoto") /\ Len(linkP[i].anyPhoto) = 1

\* C17: when no variant is strictly above the bound on the binding dimension of the
\* sampled variant, findBestImage gives none and the chain of the link rejects, the
\* event publishes nothing; an attachment that is built or published carries as
\* image_url the source of the variant the reference selects, never another one
C17_NoImageFailsTheLink ==
  /\ \A i \in DOMAIN linkP :
        ChainRan(i) =>
          LET photoUrls == fetches[i]["photoUrls"].value
              anyPhoto == linkP[i].anyPhoto[1]
          IN  /\ Exceeding(photoUrls, ReferenceDimension(anyPhoto)) = {}
                   => /\ findBestImage(photoUrls, anyPhoto) = <<>>
                      /\ linkP[i].state = "rejected"
                      /\ publishes = <<>>
              /\ linkP[i].state = "resolved"
                   => /\ Has(linkP[i].value, "image_url")
                      /\ ReferenceImage(photoUrls, anyPhoto) # <<>>
                      /\ linkP[i].value.image_url = ReferenceImage(photoUrls, anyPhoto)[1].source
  /\ \A n \in DOMAIN publishes : \A u \in DOMAIN publishes[n].unfurls :
        \E i \in DOMAIN linkP :
          /\ ChainRan(i)
          /\ event.links[i].url = u
          /\ Has(publishes[n].unfurls[u], "image_url")
          /\ ReferenceImage(fetches[i]["photoUrls"].value, linkP[i].anyPhoto[1]) # <<>>
          /\ publishes[n].unfurls[u].image_url =
               ReferenceImage(fetches[i]["photoUrls"].value, linkP[i].anyPhoto[1])[1].source

\* the chain of a link ran with a sampled variant for which no variant is above the
\* bound, in a revision where nothing else can fail the chain, while the other link
\* of the event was built
C17_Witness ==
  /\ variant # "inline"
  /\ NoFetchPending
  /\ \E i, j \in DOMAIN linkP :
        /\ ChainRan(i)
        /\ Exceeding(fetches[i]["photoUrls"].value,
                     ReferenceDimension(linkP[i].anyPhoto[1])) = {}
        /\ linkP[i].state = "rejected"
        /\ linkP[j].state = "resolved"

(***************************************************************************)
(* The interactive-message handler                                         *)
(***************************************************************************)
\* process.env.SLACK_VERIFICATION_TOKEN
VerificationToken == "AbCdEfVerification"

\* what one run of handler code did: the responses it sent, the Flickr calls it
\* started, the steps it went through, what it wrote to the console
Effect(responses_, calls_, steps_, log_) ==
  [responses |-> responses_, calls |-> calls_, steps |-> steps_, log |-> log_]

\* res.sendStatus(code)
sendStatus(code, text) == [status |-> code, body |-> [text |-> text]]

\* res.send(body)
send(body) == [status |-> 200, body |-> body]

\* function callback(error, body); an argument is <<>> (undefined, null) or <<value>>
callback(error, body) ==
  IF Len(error) > 0 THEN sendStatus(500, "Internal Server Error") ELSE send(body[1])

\* an exception that leaves handleInteractiveMessages goes to the error handling of
\* express: a 500 response, and the error on the console
UncaughtInMiddleware(error, steps_) ==
  Effect(<<sendStatus(500, "Internal Server Error")>>, <<>>, Append(steps_, "throw"), <<error>>)

\* String.prototype.split on a text kept as tokens: the pieces between the separators
RECURSIVE SplitFrom(_, _, _, _)
SplitFrom(tokens, sep, piece, acc) ==
  IF Len(tokens) = 0 THEN Append(acc, piece)
  ELSE IF tokens[1] = sep THEN SplitFrom(Tail(tokens), sep, "", Append(acc, piece))
  ELSE SplitFrom(Tail(tokens), sep, piece \o tokens[1], acc)

split(tokens, sep) == SplitFrom(tokens, sep, "", <<>>)

\* the text that a sequence of tokens stands for
TextOf(tokens) == Join(tokens, "")

\* a handler that only checks that a token was sent
TokenRejectedIfMissing(payload) == ~TruthyStr(payload, "token")

\* !payload.token || payload.token !== process.env.SLACK_VERIFICATION_TOKEN
TokenRejected(payload) ==
  ~TruthyStr(payload, "token") \/ payload.token # VerificationToken

\* a catch block that does not return: the handler goes on to read payload.token of
\* undefined
ParseErrorSwallowed ==
  Effect(<<sendStatus(400, "Bad Request"), sendStatus(500, "Internal Server Error")>>,
         <<>>, <<"parse", "token", "throw">>, <<"TypeError">>)

\* catch (parseError) { res.sendStatus(400); return; }
ParseErrorEffect == Effect(<<sendStatus(400, "Bad Request")>>, <<>>, <<"parse">>, <<>>)

\* res.sendStatus(404); return;
TokenRejectedEffect == Effect(<<sendStatus(404, "Not Found")>>, <<>>, <<"parse", "token">>, <<>>)

TitleOf(x) == IF Has(x, "title") THEN x.title ELSE "undefined"
UrlOf(x) == IF Has(x, "url") THEN x.url ELSE "undefined"


\* ---- "inline" (part_001)
InlineItem(set) == "* " \o TitleOf(set)

\* the attachment of one case of the switch on action.name in "inline"
InlineReplacement(attachment, stale, title, items) ==
  [attachment EXCEPT !["fields"] =
     Append(FilterTitleNot(attachment.fields, stale),
            [title |-> title, value |-> Join([i \in DOMAIN items |-> InlineItem(items[i])], "\n")])]

\* one case of the switch on action.name in "inline": parse the value, replace the
\* field, call done with the message
InlineCase(attachment, action, stale, title, steps_) ==
  LET parsed == JSONparse(action.value)
  IN  IF ~parsed.ok
      THEN Effect(<<callback(<<parsed.error>>, <<>>)>>, <<>>, Append(steps_, "done"), <<>>)
      ELSE IF ~Has(attachment, "fields") THEN UncaughtInMiddleware("TypeError", steps_)
      ELSE Effect(<<callback(<<[attachments |->
                                  <<InlineReplacement(attachment, stale, title, parsed.value)>>]>>,
                             <<>>)>>,
                  <<>>, Append(Append(steps_, "build"), "done"), <<>>)

\* handlePhotoDetailsInteraction(interaction, payload, done) of "inline"
InlinePhotoDetails(payload, steps_) ==
  LET attachment == payload.original_message.attachments[1]
      action == payload.actions[1]
      here == Append(steps_, "action")
  IN  IF action.name = "list_photosets"
      THEN InlineCase(attachment, action, "Albums", "Albums", here)
      ELSE IF action.name = "list_pools"
      THEN InlineCase(attachment, action, "Groups", "groups", here)
      ELSE Effect(<<>>, <<>>, here, <<>>)

\* handleInteractiveMessages of "inline" after the token check
InlineDispatch(payload) ==
  LET interaction == split(payload.callback_id, ":")
      interactionType == interaction[1]
      here == <<"parse", "token", "interaction">>
  IN  IF interactionType = "photo_details" THEN InlinePhotoDetails(payload, here)
      ELSE Effect(<<>>, <<>>, here, <<>>)

\* ---- "fetch" (part_000)
FlickrCall(method, arg) == [method |-> method, arg |-> arg, promise |-> Pending]

\* handlePhotoDetailsInteraction(payload, done) of "fetch", up to its return
FetchPhotoDetails(payload, steps_) ==
  LET action == payload.actions[1]
      here == Append(Append(steps_, "clone"), "action")
  IN  IF action.name \in {"list_photosets", "list_pools"}
      THEN Effect(<<>>, <<FlickrCall("photos.getAllContexts", action.value)>>,
                  Append(here, "flickr"), <<>>)
      ELSE Effect(<<callback(<<"Unhandled action">>, <<>>)>>, <<>>, Append(here, "done"), <<>>)

\* handleInteractiveMessages of "fetch" after the token check
FetchDispatch(payload) ==
  LET here == <<"parse", "token", "interaction">>
  IN  IF TextOf(payload.callback_id) = "photo_details" THEN FetchPhotoDetails(payload, here)
      ELSE Effect(<<callback(<<"Unhandled callack ID">>, <<>>)>>, <<>>, Append(here, "done"), <<>>)

\* handleInteractiveMessages(req, res), up to its return
handleInteractiveMessages(v, body) ==
  IF ~body.wellFormed THEN ParseErrorEffect
  ELSE IF TokenRejected(body.payload) THEN TokenRejectedEffect
  ELSE IF v = "inline" THEN InlineDispatch(body.payload)
  ELSE FetchDispatch(body.payload)

\* the field a case of "fetch" pushes
FetchItem(x) == ":small_blue_diamond: <" \o UrlOf(x) \o "|" \o TitleOf(x) \o ">"

FetchField(title, items, noneFound) ==
  [title |-> title,
   value |-> IF Len(items) > 0 THEN Join([i \in DOMAIN items |-> FetchItem(items[i])], "\n") ELSE noneFound]

\* the attachment of one .then callback of handlePhotoDetailsInteraction in "fetch"
FetchReplacement(original, stale, field) ==
  LET attachment == cloneAndCleanAttachment(original)
      kept == IF Has(attachment, "fields") THEN FilterTitleNot(attachment.fields, stale) ELSE <<>>
  IN  ("fields" :> Append(kept, field)) @@ attachment

\* the attachment "fetch" answers with, given the albums or groups that were fetched
FetchAnswer(payload, items) ==
  LET original == payload.original_message.attachments[1]
  IN  IF payload.actions[1].name = "list_photosets"
      THEN FetchReplacement(original, "Albums",
                            FetchField("Albums", items, "This photo is not in any albums"))
      ELSE FetchReplacement(original, "Groups",
                            FetchField("Groups", items, "This photo is not in any groups"))

\* x._content || ''
ContentOf(x) == IF Has(x, "_content") THEN x["_content"] ELSE ""

\* getFlickrPhotoSets: the album of a photosets.getInfo answer
SetData(setInfo) ==
  LET photoset == setInfo.photoset
  IN  [photoset EXCEPT
         !["title"] = ContentOf(photoset.title),
         !["description"] = ContentOf(photoset.description)]
        @@ ("url" :> "https://www.flickr.com/photos/" \o photoset.owner \o "/sets/"
                       \o photoset.id \o "/")

\* getFlickrPhotoPools: the group of a pool of photos.getAllContexts
PoolData(pool) == [pool EXCEPT !["url"] = "https://www.flickr.com" \o pool.url]

\* ---- Slack's side of a button press
\* what Slack adds to an attachment and to its actions before it sends them back
InjectAction(a) == [id |-> "1", style |-> ""] @@ a

Inject(attachment) ==
  ("id" :> 1)
    @@ (IF Has(attachment, "actions")
        THEN [attachment EXCEPT !["actions"] = [i \in DOMAIN attachment.actions |-> InjectAction(attachment.actions[i])]]
        ELSE attachment)

\* the action of a payload for a button of the message
PressedAction(a) == Pick(a, {"name", "type", "value"})

\* the attachment a response body carries
ReplacementIn(body) == IF Has(body, "attachments") THEN body.attachments[1] ELSE body

\* the message after Slack received the responses: a 200 replaces the attachment
MessageAfter(msg, sent) ==
  IF Len(sent) > 0 /\ sent[1].status = 200
  THEN [posted |-> TRUE, attachment |-> ReplacementIn(sent[1].body)]
  ELSE msg

\* the attachments the pipeline of revision v can have published
PublishedAttachments(v) ==
  {UnfurlsOf(<<c.value>>)[c.value.url] :
     c \in {x \in {LinkChain([url |-> u],
                             [k \in FetchKinds(v) |-> FlickrAnswer(k, PhotoIdOf(u))], anyPhoto) :
                     u \in {PhotoUrl1, PhotoUrl2, PhotoUrl3},
                     anyPhoto \in UNION {Samples(FlickrAnswer("photoUrls", PhotoIdOf(w))) :
                                           w \in {PhotoUrl1, PhotoUrl2, PhotoUrl3}}} :
              x.state = "resolved"}}

CallbackIds ==
  {<<"photo_details">>, <<"photo_details", ":", "123456">>, <<"wopr_game", ":", "123456">>}

\* the callback_id a payload can carry: the one of the message, or another one
CallbackIdsFor(attachment) ==
  CallbackIds \cup (IF Has(attachment, "callback_id") THEN {attachment.callback_id} ELSE {})

Tokens == {<<>>, <<"">>, <<VerificationToken>>, <<"AbCdEfVerificatiom">>}

\* the actions a payload can carry: a button of the message, or one made up
ActionsFor(v, attachment) ==
  (IF Has(attachment, "actions")
   THEN {PressedAction(attachment.actions[i]) : i \in 1..Len(attachment.actions)} ELSE {})
  \cup (IF v = "inline"
        THEN {Button("Delete", "delete_photo", JSONstringify(<<>>, SetKeys)),
              Button("Albums", "list_photosets", JSONstringify(<<>>, SetKeys)),
              Button("Groups", "list_pools", <<Punct("["), Punct("{")>>)}
        ELSE {Button("Delete", "delete_photo", "123456")})

\* the bodies a request to /slack/messages can carry
InteractiveBodies(v, attachment) ==
  {[wellFormed |-> FALSE]}
  \cup {[wellFormed |-> TRUE,
         payload |-> Opt("token", t)
                       @@ [callback_id |-> c, actions |-> <<a>>,
                           original_message |-> [attachments |-> <<Inject(attachment)>>]]] :
          t \in Tokens, c \in CallbackIdsFor(attachment), a \in ActionsFor(v, attachment)}

Quiescent == \A n \in DOMAIN outbound : outbound[n].promise.state # "pending"

\* ---- what a request was, in the terms of the specification
WellFormed == req # NoReq /\ req.body.wellFormed

TokenMatches == Has(req.body.payload, "token") /\ req.body.payload.token = VerificationToken

\* the interaction family of the callback_id: the identifier itself where the
\* revision issues it bare ("fetch"), its first segment where a photo id follows
InteractionFamily ==
  IF variant = "fetch" THEN TextOf(req.body.payload.callback_id)
  ELSE split(req.body.payload.callback_id, ":")[1]

ActionKey == req.body.payload.actions[1].name

RecognizedKey == ActionKey \in {"list_photosets", "list_pools"}

\* the album or group data was obtained: every Flickr call resolved ("fetch"), the
\* value of the action decodes ("inline")
DataObtained ==
  IF variant = "fetch"
  THEN Len(outbound) > 0 /\ \A n \in DOMAIN outbound : outbound[n].promise.state = "resolved"
  ELSE JSONparse(req.body.payload.actions[1].value).ok

DataFailed ==
  IF variant = "fetch"
  THEN \E n \in DOMAIN outbound : outbound[n].promise.state = "rejected"
  ELSE ~JSONparse(req.body.payload.actions[1].value).ok

\* the handler has returned and every call it made has settled
Handled == req # NoReq /\ Quiescent

\* a press of a button of the family, with its data obtained, on a connection on
\* which res.send does not fail
ValidPress ==
  /\ Handled
  /\ req.send = "sent"
  /\ WellFormed
  /\ TokenMatches
  /\ InteractionFamily = "photo_details"
  /\ RecognizedKey
  /\ DataObtained

\* the request that has just been handled, for the record
Summary ==
  [validPress |-> ValidPress, key |-> IF ValidPress THEN ActionKey ELSE ""]

\* what res.send(body) can do: send the response, or throw before or after the
\* response went out; only "fetch" reaches res.send
SendFates(v) == IF v = "fetch" THEN {"sent", "throws_unsent", "throws_sent"} ELSE {"sent"}

\* POST /slack/messages: handleInteractiveMessages runs to its return
ReceiveInteractive(body, fate) ==
  /\ variant \in InteractiveVariants
  /\ message.posted
  /\ Quiescent
  /\ LET did == handleInteractiveMessages(variant, body)
     IN  /\ req' = [kind |-> "interactive", body |-> body, send |-> fate]
         /\ responses' = did.responses
         /\ outbound' = did.calls
         /\ steps' = did.steps
         /\ log' = did.log
         /\ reqState' = IF Len(did.responses) = 0 THEN "awaiting_action" ELSE "responded"
         /\ message' = MessageAfter(message, did.responses)
  /\ history' = IF req = NoReq THEN <<>> ELSE <<Summary>>
  /\ UNCHANGED <<variant, unfurlVars, builderVars, suspended>>

\* a handler that keeps the payload in a variable of the module: a request that
\* waits with its payload parsed has overwritten it
LastPayload ==
  IF \E s \in DOMAIN suspended : suspended[s].req # NoReq /\ suspended[s].req.body.wellFormed
  THEN suspended[CHOOSE s \in DOMAIN suspended :
                   suspended[s].req # NoReq /\ suspended[s].req.body.wellFormed].req.body.payload
  ELSE req.body.payload

\* the payload the .then callbacks of handlePhotoDetailsInteraction close over: the
\* argument of the call that made them
CapturedPayload == req.body.payload

\* attachmentPromise.then(a => done(null, a)).catch(done) of "fetch": done runs with
\* the attachment or with the error. When res.send throws inside done(null, a), the
\* promise of .then rejects and .catch(done) runs done a second time, with the error:
\* res.sendStatus(500) sends the response if none went out, and throws otherwise,
\* which leaves a rejected promise that nothing handles.
Done(error, body) ==
  LET sent == Append(responses, callback(error, body))
      failed == Append(responses, sendStatus(500, "Internal Server Error"))
  IN  IF Len(error) > 0 \/ req.send = "sent"
      THEN /\ responses' = sent
           /\ reqState' = "responded"
           /\ message' = MessageAfter(message, sent)
           /\ steps' = Append(steps, "done")
           /\ UNCHANGED log
      ELSE /\ responses' = IF req.send = "throws_sent" THEN sent ELSE failed
           /\ reqState' = "responded"
           /\ message' = MessageAfter(message, IF req.send = "throws_sent" THEN sent ELSE failed)
           /\ steps' = Append(Append(steps, "done"), "done")
           /\ log' = IF req.send = "throws_sent"
                     THEN Append(log, "UnhandledPromiseRejectionWarning") ELSE log

\* photos.getAllContexts of getFlickrPhotoSets or getFlickrPhotoPools resolves
ContextsResolve ==
  /\ variant = "fetch"
  /\ Len(outbound) > 0
  /\ outbound[1].promise.state = "pending"
  /\ LET photoContexts == FlickrAnswer("photoContexts", outbound[1].arg)
         payload == CapturedPayload
         first == [outbound[1] EXCEPT !.promise = Resolved(photoContexts)]
     IN  IF payload.actions[1].name = "list_photosets"
         THEN IF Has(photoContexts, "set") /\ Len(photoContexts["set"]) > 0
              THEN /\ outbound' = <<first>> \o [n \in 1..Len(photoContexts["set"]) |->
                                      FlickrCall("photosets.getInfo", photoContexts["set"][n].id)]
                   /\ UNCHANGED <<responses, reqState, message, steps, log>>
              ELSE /\ outbound' = <<first>>
                   /\ Done(<<>>, <<FetchAnswer(payload, <<>>)>>)
         ELSE /\ outbound' = <<first>>
              /\ Done(<<>>, <<FetchAnswer(payload,
                                IF Has(photoContexts, "pool")
                                THEN [i \in DOMAIN photoContexts["pool"] |-> PoolData(photoContexts["pool"][i])] ELSE <<>>)>>)
  /\ UNCHANGED <<variant, req, history, unfurlVars, builderVars, suspended>>

\* photos.getAllContexts rejects
ContextsReject ==
  /\ variant = "fetch"
  /\ Len(outbound) > 0
  /\ outbound[1].promise.state = "pending"
  /\ outbound' = [outbound EXCEPT ![1].promise = Rejected("photos.getAllContexts")]
  /\ Done(<<"photos.getAllContexts">>, <<>>)
  /\ UNCHANGED <<variant, req, history, unfurlVars, builderVars, suspended>>

SetInfoValue(call) == SetData(call.promise.value)

\* a photosets.getInfo call of getFlickrPhotoSets settles
SetInfoSettle(n, settled) ==
  /\ variant = "fetch"
  /\ n \in 2..Len(outbound)
  /\ outbound[n].promise.state = "pending"
  /\ LET after == [outbound EXCEPT ![n].promise = settled]
         infos == SubSeq(after, 2, Len(after))
         joined == PromiseAll([m \in 1..Len(infos) |-> infos[m].promise])
     IN  /\ outbound' = after
         /\ IF reqState = "responded" \/ joined = "pending"
            THEN UNCHANGED <<responses, reqState, message, steps, log>>
            ELSE IF joined = "rejected" THEN Done(<<settled.error>>, <<>>)
            ELSE Done(<<>>, <<FetchAnswer(CapturedPayload, [i \in DOMAIN infos |-> SetInfoValue(infos[i])])>>)
  /\ UNCHANGED <<variant, req, history, unfurlVars, builderVars, suspended>>

SetInfoResolve ==
  \E n \in DOMAIN outbound : SetInfoSettle(n, Resolved(FlickrSetInfo(outbound[n].arg)))

SetInfoReject ==
  \E n \in DOMAIN outbound : SetInfoSettle(n, Rejected("photosets.getInfo"))

InitInteractive ==
  /\ variant \in InteractiveVariants
  /\ message \in {[posted |-> TRUE, attachment |-> a] : a \in PublishedAttachments(variant)}
  /\ req = NoReq
  /\ reqState = "none"
  /\ outbound = <<>>
  /\ responses = <<>>
  /\ steps = <<>>
  /\ history = <<>>
  /\ log = <<>>
  /\ UnfurlIdle
  /\ BuilderIdle
  /\ NoneSuspended

Receive ==
  \E body \in InteractiveBodies(variant, message.attachment) : \E fate \in SendFates(variant) :
    ReceiveInteractive(body, fate)

NextInteractive ==
  \/ Receive
  \/ ContextsResolve
  \/ ContextsReject
  \/ SetInfoResolve
  \/ SetInfoReject

SpecInteractive == InitInteractive /\ [][NextInteractive]_vars

OkWithAttachment(response) ==
  /\ response.status = 200
  /\ Has(ReplacementIn(response.body), "fallback")

\* C1: a request that parses, carries the secret, is of the photo_details family and
\* presses one of the two recognized keys with its data obtained is answered 200
\* with the replacement attachment, and with no error status
C1_ValidPressAnswered200 ==
  ValidPress =>
    /\ Len(responses) > 0
    /\ \A n \in DOMAIN responses : OkWithAttachment(responses[n])

\* C2: a request whose payload parses and whose token is missing or is not the
\* secret is answered 404 and nothing else happens: no dispatch, no Flickr call,
\* nothing on the console
C2_TokenMismatchAnswered404 ==
  (WellFormed /\ ~TokenMatches) =>
    /\ responses = <<sendStatus(404, "Not Found")>>
    /\ steps = <<"parse", "token">>
    /\ outbound = <<>>
    /\ log = <<>>

\* a request with a token that differs from the secret in one letter was answered
C2_Witness ==
  /\ WellFormed
  /\ TruthyStr(req.body.payload, "token")
  /\ req.body.payload.token # VerificationToken
  /\ req.body.payload.callback_id = <<"photo_details">>
  /\ RecognizedKey
  /\ reqState = "responded"

\* C3: a request whose payload does not parse is answered 400, and the handler stops
\* there: no token check, no dispatch, no Flickr call
C3_ParseFailureAnswered400 ==
  (req # NoReq /\ ~req.body.wellFormed) =>
    /\ responses = <<sendStatus(400, "Bad Request")>>
    /\ steps = <<"parse">>
    /\ outbound = <<>>

\* a request whose payload does not parse was answered
C3_Witness ==
  /\ req # NoReq
  /\ ~req.body.wellFormed
  /\ reqState = "responded"

\* C4: a request that parses and carries the secret, and is of another family, or
\* presses an unrecognized key, or whose data is not obtained, is answered 500
\* without an attachment
C4_UnhandledAnswered500 ==
  (/\ Handled
   /\ WellFormed
   /\ TokenMatches
   /\ \/ InteractionFamily # "photo_details"
      \/ ~RecognizedKey
      \/ DataFailed) =>
    responses = <<sendStatus(500, "Internal Server Error")>>

\* C5: every request is answered: once the handler has returned and every call it
\* made has settled, a response has been sent
C5_EveryRequestAnswered ==
  Handled => (reqState = "responded" /\ Len(responses) > 0)

\* the fields of an attachment with a given title
FieldsTitled(a, title) ==
  IF Has(a, "fields") THEN {i \in 1..Len(a.fields) : a.fields[i].title = title} ELSE {}

FieldTitleOf(key) == IF key = "list_photosets" THEN "Albums" ELSE "Groups"

\* C6: the second of two presses of the same button in a row, the second on the
\* replacement of the first, yields an attachment with exactly one field for the
\* button
C6_SecondPressOneField ==
  (/\ ValidPress
   /\ Len(history) = 1
   /\ history[1].validPress
   /\ history[1].key = ActionKey) =>
    /\ Len(responses) > 0
    /\ OkWithAttachment(responses[1])
    /\ Cardinality(FieldsTitled(ReplacementIn(responses[1].body), FieldTitleOf(ActionKey))) = 1

\* the albums or groups behind the pressed button: what Flickr answered ("fetch"),
\* what the value of the button carries ("inline")
UnderlyingCollection ==
  IF variant = "fetch"
  THEN IF ActionKey = "list_photosets"
       THEN [n \in 1..(Len(outbound) - 1) |-> SetData(outbound[n + 1].promise.value)]
       ELSE IF Has(outbound[1].promise.value, "pool")
            THEN [n \in DOMAIN outbound[1].promise.value["pool"] |->
                    PoolData(outbound[1].promise.value["pool"][n])]
            ELSE <<>>
  ELSE JSONparse(req.body.payload.actions[1].value).value

\* the entry of the list for one album or group
EntryOf(x) == IF variant = "fetch" THEN FetchItem(x) ELSE InlineItem(x)

\* one entry per element, in order, each on its own line
EntryLines(items) ==
  LET upTo[n \in 1..Len(items)] ==
        IF n = 1 THEN EntryOf(items[1]) ELSE upTo[n - 1] \o "\n" \o EntryOf(items[n])
  IN  upTo[Len(items)]

NoneFoundSentence ==
  IF ActionKey = "list_photosets" THEN "This photo is not in any albums"
  ELSE "This photo is not in any groups"

\* C14: the replacement attachment of a press has the field of the pressed button,
\* its value the fixed "none found" sentence of the collection when the albums
\* (groups) behind the button are none, and otherwise the list of the albums
\* (groups), one entry per element in their order, joined by newlines
C14_NoneFoundSentenceOrList ==
  ValidPress =>
    /\ Len(responses) > 0
    /\ OkWithAttachment(responses[1])
    /\ LET replacement == ReplacementIn(responses[1].body)
           mine == FieldsTitled(replacement, FieldTitleOf(ActionKey))
       IN  /\ mine # {}
           /\ \A n \in mine :
                replacement.fields[n].value =
                  IF Len(UnderlyingCollection) = 0 THEN NoneFoundSentence
                  ELSE EntryLines(UnderlyingCollection)

\* the attachment a press was made on, as Slack sent it back
OriginalAttachment == req.body.payload.original_message.attachments[1]

\* the fields of an attachment other than the ones with the given title, in order
OtherFields(a, title) == IF Has(a, "fields") THEN FilterTitleNot(a.fields, title) ELSE <<>>

\* the top-level properties a press must leave as they are
FrameProperties ==
  {"fallback", "color", "title", "title_link", "image_url", "author_name", "author_icon",
   "author_link", "callback_id"}

\* C15: the replacement attachment of a press differs from the original in the field
\* of the pressed button only: the other fields are the original's, in their order,
\* fallback, color, title, title_link, image_url, author_*, callback_id and actions
\* are the original's, and neither the attachment nor one of its actions has a
\* property that Slack added
C15_PressChangesOneField ==
  ValidPress =>
    /\ Len(responses) > 0
    /\ OkWithAttachment(responses[1])
    /\ LET replacement == ReplacementIn(responses[1].body)
           original == OriginalAttachment
       IN  /\ OtherFields(replacement, FieldTitleOf(ActionKey))
                = OtherFields(original, FieldTitleOf(ActionKey))
           /\ \A k \in FrameProperties :
                /\ Has(replacement, k) <=> Has(original, k)
                /\ Has(original, k) => replacement[k] = original[k]
           /\ Has(replacement, "actions") <=> Has(original, "actions")
           /\ Has(original, "actions") =>
                /\ Len(replacement.actions) = Len(original.actions)
                /\ \A n \in DOMAIN original.actions :
                     /\ DOMAIN replacement.actions[n] \subseteq {"text", "name", "type", "value"}
                     /\ \A k \in DOMAIN replacement.actions[n] :
                          /\ Has(original.actions[n], k)
                          /\ replacement.actions[n][k] = original.actions[n][k]
                     /\ \A k \in {"text", "name", "type", "value"} :
                          Has(original.actions[n], k) => Has(replacement.actions[n], k)
           /\ DOMAIN replacement \subseteq FrameProperties \cup {"url", "fields", "actions"}

\* the request carries the callback_id of the message and one of its buttons as they are
PressOfPublishedButton ==
  /\ Handled
  /\ WellFormed
  /\ TokenMatches
  /\ Has(OriginalAttachment, "callback_id")
  /\ req.body.payload.callback_id = OriginalAttachment.callback_id
  /\ \E n \in DOMAIN OriginalAttachment.actions :
        req.body.payload.actions[1] = PressedAction(OriginalAttachment.actions[n])

\* the handler went into the branch of an action it recognizes
RecognizedBranchTaken ==
  IF variant = "fetch" THEN \E n \in DOMAIN steps : steps[n] = "flickr"
  ELSE \E n \in DOMAIN steps : steps[n] \in {"build", "throw"}

\* the albums or groups of the photo named by an identifier of "inline"
EmbeddedCollection(callback_id, key) ==
  LET photoContexts == FlickrAnswer("photoContexts", split(callback_id, ":")[2])
  IN  IF key = "list_photosets" THEN photoContexts["set"] ELSE photoContexts["pool"]

\* C16: a press that carries the callback_id and a button of a published attachment as
\* they are is decoded to the photo_details family and handled in the branch of the
\* button; the value of the button decodes to the albums (groups) that the pipeline
\* put in it, and where the value is the photo id the albums (groups) of that photo
\* are asked for
C16_IdentifierAndValueRoundTrip ==
  PressOfPublishedButton =>
    /\ \E n \in DOMAIN steps : steps[n] = "action"
    /\ RecognizedKey
    /\ RecognizedBranchTaken
    /\ variant = "inline" =>
         /\ split(req.body.payload.callback_id, ":")[1] = "photo_details"
         /\ JSONparse(req.body.payload.actions[1].value)
              = Ok(EmbeddedCollection(req.body.payload.callback_id, ActionKey))
    /\ variant = "fetch" =>
         /\ Len(outbound) > 0
         /\ outbound[1].method = "photos.getAllContexts"
         /\ \E n \in DOMAIN OriginalAttachment.actions :
              outbound[1].arg = OriginalAttachment.actions[n].value

\* a press of the Albums button of an attachment published with two albums in the
\* value of the button was handled by the revision that decodes the value
C16_Witness ==
  /\ PressOfPublishedButton
  /\ variant = "inline"
  /\ ActionKey = "list_photosets"
  /\ Len(JSONparse(req.body.payload.actions[1].value).value) = 2
  /\ Len(split(req.body.payload.callback_id, ":")) = 2

\* the photo an attachment with buttons was published for
PhotoIdOfAttachment(a) ==
  IF variant = "fetch" THEN a.actions[1].value ELSE split(a.callback_id, ":")[2]

\* the fields the pipeline published the attachment with
PublishedFields(a) == PhotoFields(FlickrAnswer("photoInfo", PhotoIdOfAttachment(a)))

\* the fields of a are the published ones in their order, then at most one Albums and
\* at most one Groups field
PublishedThenAlbumsGroups(a) ==
  LET fields == IF Has(a, "fields") THEN a.fields ELSE <<>>
      base == PublishedFields(a)
  IN  /\ Len(fields) >= Len(base)
      /\ SubSeq(fields, 1, Len(base)) = base
      /\ \A n \in (Len(base) + 1)..Len(fields) : fields[n].title \in {"Albums", "Groups"}
      /\ Cardinality(FieldsTitled(a, "Albums")) <= 1
      /\ Cardinality(FieldsTitled(a, "Groups")) <= 1

\* C19: in every sequence of Albums and Groups presses, each on the replacement of the
\* one before and the first on a published attachment, with or without a fields key,
\* every press is answered with a replacement, and the fields of every replacement
\* are the published fields in their order followed by at most one Albums and at most
\* one Groups field
C19_ChainedPressesKeepFields ==
  /\ ValidPress =>
       /\ Len(responses) = 1
       /\ OkWithAttachment(responses[1])
       /\ PublishedThenAlbumsGroups(ReplacementIn(responses[1].body))
  /\ (message.posted /\ Has(message.attachment, "actions")) =>
       PublishedThenAlbumsGroups(message.attachment)

\* how many times the completion callback of the request was invoked
CallbackInvocations == Cardinality({n \in DOMAIN steps : steps[n] = "done"})

\* C20: for every request at most one response is sent and the completion callback of
\* the request is invoked at most once, also when sending the success response fails
\* and the rejection handler runs
C20_AtMostOneResponse ==
  req # NoReq =>
    /\ Len(responses) <= 1
    /\ CallbackInvocations <= 1

(***************************************************************************)
(* Several requests at once ("fetch")                                      *)
(* Node runs one callback at a time, to its end, and between two callbacks *)
(* of a request the callbacks of other requests run. What the callbacks of *)
(* a request read is what they close over: the module keeps its clients    *)
(* and nothing else between requests. The variables of the two pipelines   *)
(* hold the request whose callback runs next; the requests that wait are   *)
(* in `suspended`. The revision and the message in Slack are shared.       *)
(***************************************************************************)
MaxRequests == 2

\* the place of a request that has not arrived
NoRequest ==
  [event |-> NoEvent, fetches |-> <<>>, linkP |-> <<>>, allP |-> "none",
   publishes |-> <<>>, calls |-> 0,
   req |-> NoReq, reqState |-> "none", outbound |-> <<>>, responses |-> <<>>,
   steps |-> <<>>, history |-> <<>>, log |-> <<>>]

\* the request whose callback runs next, with what its callbacks close over
Running ==
  [event |-> event, fetches |-> fetches, linkP |-> linkP, allP |-> allP,
   publishes |-> publishes, calls |-> calls,
   req |-> req, reqState |-> reqState, outbound |-> outbound, responses |-> responses,
   steps |-> steps, history |-> history, log |-> log]

\* no request arrived in the place that runs
Fresh == event = NoEvent /\ req = NoReq

ConcurrentLinkLists == {<<[url |-> u]>> : u \in PhotoUrls}

\* the presses of the buttons of the message and of a button the handler does not
\* know, with the token of the application, and a body that does not parse
ConcurrentBodies(attachment) ==
  {b \in InteractiveBodies("fetch", attachment) :
     b.wellFormed => /\ ~TokenRejected(b.payload)
                     /\ TextOf(b.payload.callback_id) = "photo_details"}

\* a link_shared event arrives while other requests wait
ArriveLinkShared ==
  /\ Fresh
  /\ \E links \in ConcurrentLinkLists : LinkShared(links, "1500000000.000100")

\* a request to /slack/messages arrives while other requests wait
ArrivePress ==
  /\ Fresh
  /\ \E body \in ConcurrentBodies(message.attachment) : ReceiveInteractive(body, "sent")

\* the event loop turns to the callbacks of the request in place s
Switch(s) ==
  /\ s \in DOMAIN suspended
  /\ Running # suspended[s]
  /\ suspended' = [suspended EXCEPT ![s] = Running]
  /\ event' = suspended[s].event
  /\ fetches' = suspended[s].fetches
  /\ linkP' = suspended[s].linkP
  /\ allP' = suspended[s].allP
  /\ publishes' = suspended[s].publishes
  /\ calls' = suspended[s].calls
  /\ req' = suspended[s].req
  /\ reqState' = suspended[s].reqState
  /\ outbound' = suspended[s].outbound
  /\ responses' = suspended[s].responses
  /\ steps' = suspended[s].steps
  /\ history' = suspended[s].history
  /\ log' = suspended[s].log
  /\ UNCHANGED <<variant, message, builderVars>>

InitConcurrent ==
  /\ variant = "fetch"
  /\ message \in {[posted |-> TRUE, attachment |-> a] : a \in PublishedAttachments("fetch")}
  /\ req = NoReq
  /\ reqState = "none"
  /\ outbound = <<>>
  /\ responses = <<>>
  /\ steps = <<>>
  /\ history = <<>>
  /\ log = <<>>
  /\ UnfurlIdle
  /\ BuilderIdle
  /\ suspended = [s \in 1..(MaxRequests - 1) |-> NoRequest]

NextConcurrent ==
  \/ ArriveLinkShared
  \/ ArrivePress
  \/ ResolveFetch
  \/ RejectFetch
  \/ PublishResolves
  \/ PublishRejects
  \/ ContextsResolve
  \/ ContextsReject
  \/ SetInfoResolve
  \/ SetInfoReject
  \/ \E s \in DOMAIN suspended : Switch(s)

SpecConcurrent == InitConcurrent /\ [][NextConcurrent]_vars

\* ---- a request handled alone
\* the chat.unfurl calls of the event of c when nothing else is handled, given what
\* Flickr answered to its calls and what lodash.sample drew
AlonePublishes(c) ==
  IF c.event = NoEvent THEN <<>>
  ELSE LET built == [i \in DOMAIN c.event.links |->
                       IF PromiseAll(c.fetches[i]) = "resolved"
                       THEN LinkChain(c.event.links[i], PromiseAllValues(c.fetches[i]),
                                      c.linkP[i].anyPhoto)
                       ELSE Pending]
       IN  IF \A i \in DOMAIN built : built[i].state = "resolved"
           THEN <<[message_ts |-> c.event.message_ts, channel |-> c.event.channel,
                   unfurls |-> UnfurlsOf([i \in DOMAIN built |-> built[i].value])]>>
           ELSE <<>>

\* the albums or groups the calls of c have brought so far: none yet, a failure, or
\* the items of the field
AloneItems(c) ==
  LET photoContexts == c.outbound[1].promise
      infos == SubSeq(c.outbound, 2, Len(c.outbound))
      joined == PromiseAll([m \in 1..Len(infos) |-> infos[m].promise])
  IN  IF photoContexts.state # "resolved" THEN [state |-> photoContexts.state]
      ELSE IF c.req.body.payload.actions[1].name = "list_pools"
      THEN Resolved(IF Has(photoContexts.value, "pool")
                    THEN [i \in DOMAIN photoContexts.value["pool"] |->
                            PoolData(photoContexts.value["pool"][i])]
                    ELSE <<>>)
      ELSE IF ~Has(photoContexts.value, "set") \/ Len(photoContexts.value["set"]) = 0
      THEN Resolved(<<>>)
      ELSE IF Len(infos) # Len(photoContexts.value["set"]) \/ joined # "resolved"
      THEN [state |-> IF Len(infos) # Len(photoContexts.value["set"]) THEN "pending" ELSE joined]
      ELSE Resolved([i \in DOMAIN infos |-> SetInfoValue(infos[i])])

\* the responses to the request of c when nothing else is handled, given what Flickr
\* answered to its calls
AloneResponses(c) ==
  IF c.req = NoReq THEN <<>>
  ELSE LET did == handleInteractiveMessages(variant, c.req.body)
       IN  IF Len(did.calls) = 0 THEN did.responses
           ELSE IF Len(c.outbound) = 0 \/ AloneItems(c).state = "pending" THEN <<>>
           ELSE IF AloneItems(c).state = "rejected"
           THEN <<sendStatus(500, "Internal Server Error")>>
           ELSE <<send(FetchAnswer(c.req.body.payload, AloneItems(c).value))>>

\* the requests that arrived
Arrived == {c \in {Running} \cup {suspended[s] : s \in DOMAIN suspended} : c # NoRequest}

\* C18: however the callbacks of the requests that are handled at once interleave,
\* link_shared events and button presses in any mix, the chat.unfurl calls and the
\* HTTP responses of every request are those of the request handled alone with the
\* same answers from Flickr
C18_RequestsDoNotInterfere ==
  \A c \in Arrived :
    /\ c.publishes = AlonePublishes(c)
    /\ c.responses = AloneResponses(c)

\* two requests are handled at once, each after a callback of its own has run: the
\* chat.unfurl call of an event is in flight, and a press of Albums waits for
\* photosets.getInfo with one of its calls answered
C18_Witness ==
  /\ Cardinality(Arrived) = MaxRequests
  /\ \E c \in Arrived : c.allP = "publishing" /\ Len(c.publishes) = 1
  /\ \E c \in Arrived :
       /\ c.req # NoReq
       /\ c.responses = <<>>
       /\ \E n \in DOMAIN c.outbound :
            n > 1 /\ c.outbound[n].promise.state = "resolved"
       /\ \E n \in DOMAIN c.outbound : c.outbound[n].promise.state = "pending"

====
